---- MODULE Spec2Model ----
(***************************************************************************)
(* A model of app/parse.py: the pagination driver get_quotes, the quote    *)
(* extractor parse_single_quote / get_single_page_quotes, the biography    *)
(* resolver get_author_bio with its cache author_bios, and the two CSV     *)
(* writers called from main.                                               *)
(*                                                                         *)
(* A Python str is a sequence of one-character strings.  A list is a       *)
(* sequence.  The dict author_bios is a sequence of [author, bio] records  *)
(* in insertion order, which is the order dict.items() yields.             *)
(* The result of a CSS selection is the sequence of the matched elements,  *)
(* so select_one(...) is None exactly when that sequence is empty.         *)
(***************************************************************************)
EXTENDS Integers, Sequences, FiniteSets, TLC

VARIABLES
    pc,             \* position of main: "get", "parse", "returned", "wrote_quotes", "exit", "aborted"
    page_number,    \* get_quotes: page_number
    page,           \* the listing response being processed: its status and number of quote blocks
    quotes_on_page, \* the list get_single_page_quotes is building
    all_quotes,     \* get_quotes: all_quotes
    author_bios,    \* get_quotes: author_bios
    error,          \* the exception that ended the run, "" when none
    quotes_csv,     \* the file at quotes_csv_path: times opened for writing, and content
    authors_csv,    \* the file at authors_csv_path
    served,         \* history: every listing request, its outcome and the quote blocks read
    bio_requests,   \* history: every author detail request, by author and url
    bio_response,   \* history: what the latest author detail request gave
    bio_in,         \* get_author_bio on its own: the response handed to it
    bio_out,        \* get_author_bio on its own: what it returned
    csv_phase,      \* write_quotes_to_csv on its own: "build", "written", "read"
    csv_quotes,     \* write_quotes_to_csv on its own: the quotes handed to it
    csv_file,       \* write_quotes_to_csv on its own: the file content it produced
    csv_rows        \* the rows a CSV reader gets back from csv_file

runVars == <<pc, page_number, page, quotes_on_page, all_quotes, author_bios, error,
             quotes_csv, authors_csv, served, bio_requests, bio_response>>
bioVars == <<bio_in, bio_out>>
csvVars == <<csv_phase, csv_quotes, csv_file, csv_rows>>
vars == <<runVars, bioVars, csvVars>>

-----------------------------------------------------------------------------
(* Bounds of the model *)

\* listing pages the driver may request before the model stops following it
MaxPages == 3
\* quote blocks on the listing pages of one run, all pages together
MaxBlocks == 4
\* text nodes inside a biography element, and characters in one text node
MaxNodes == 2
MaxNodeLen == 2
\* records + tags + characters of the quote list handed to write_quotes_to_csv
MaxSize == 5

-----------------------------------------------------------------------------
(* Python str and list operations *)

\* str.isspace() for the characters of the model
IsSpace(c) == c \in {" ", "\n", "\t", "\r"}

RECURSIVE lstrip(_)
lstrip(s) == IF s = <<>> THEN s
             ELSE IF IsSpace(Head(s)) THEN lstrip(Tail(s)) ELSE s

RECURSIVE rstrip(_)
rstrip(s) == IF s = <<>> THEN s
             ELSE IF IsSpace(s[Len(s)]) THEN rstrip(SubSeq(s, 1, Len(s) - 1)) ELSE s

\* str.strip()
strip(s) == rstrip(lstrip(s))

\* sep.join(parts)
RECURSIVE join(_, _)
join(sep, parts) ==
    IF parts = <<>> THEN <<>>
    ELSE IF Len(parts) = 1 THEN parts[1]
    ELSE parts[1] \o sep \o join(sep, Tail(parts))

\* the lengths of the sequences of ss, added up
RECURSIVE SumLen(_)
SumLen(ss) == IF ss = <<>> THEN 0 ELSE Len(Head(ss)) + SumLen(Tail(ss))

\* Tag.get_text(strip=True): every text node stripped, the empty ones dropped,
\* the rest joined with the empty separator
RECURSIVE get_text_strip(_)
get_text_strip(nodes) ==
    IF nodes = <<>> THEN <<>>
    ELSE LET t == strip(Head(nodes))
         IN  t \o get_text_strip(Tail(nodes))

\* Tag.get_text(): the text nodes joined as they are
get_text(nodes) == join(<<>>, nodes)

-----------------------------------------------------------------------------
(* The author biography resolver *)

\* "Biography not available."
Sentinel == <<"B","i","o","g","r","a","p","h","y"," ","n","o","t"," ",
              "a","v","a","i","l","a","b","l","e",".">>

\* requests.get raised instead of returning a response
ConnectionError == [status |-> -1, bio |-> <<>>]

\* get_author_bio without the strip=True of line 120
get_author_bio_nostrip(response) ==
    IF response.status # 200 THEN Sentinel
    ELSE IF response.bio = <<>> THEN Sentinel
    ELSE get_text(response.bio[1])

\* get_author_bio without the status check of lines 115-116
get_author_bio_nostatus(response) ==
    IF response.bio = <<>> THEN Sentinel
    ELSE get_text_strip(response.bio[1])

\* get_author_bio, given the response requests.get(author_url) returned.
\* response.bio is the selection ".author-details .author-description" of the
\* body: empty, or one element given by its text nodes.
get_author_bio(response) ==
    IF response.status # 200 THEN Sentinel
    ELSE IF response.bio = <<>> THEN Sentinel
    ELSE get_text_strip(response.bio[1])

-----------------------------------------------------------------------------
(* The dict author_bios *)

Keys(d) == {d[i].author : i \in 1..Len(d)}

\* d[k], for a key of d
dict_get(d, k) == d[CHOOSE i \in 1..Len(d) : d[i].author = k].bio

\* d[k] = v: a new key goes last, a present key keeps its place
dict_set(d, k, v) ==
    IF k \in Keys(d)
    THEN [i \in 1..Len(d) |-> IF d[i].author = k THEN [author |-> k, bio |-> v] ELSE d[i]]
    ELSE Append(d, [author |-> k, bio |-> v])

\* a cache test that never finds the author
not_in_always(author, d) == TRUE

\* "author not in author_bios", line 43
not_in(author, d) == author \notin Keys(d)

-----------------------------------------------------------------------------
(* The quote extractor *)

Quote(text, author, tags) == [text |-> text, author |-> author, tags |-> tags]

NoQuote == Quote(<<>>, <<>>, <<>>)

\* The quote blocks a listing page may hold.  text, author and tags are the
\* selections ".text", ".author" and ".tags .tag" inside the block, each element
\* given by its text; link is the selection ".author + a": "absent" when it is
\* empty, "nohref" for an element without the attribute, else the href.
BlockSet ==
    { [text |-> << <<"x">> >>, author |-> << <<"A">> >>, tags |-> <<>>,
       link |-> "/author/A"],
      [text |-> << <<"y", ",">> >>, author |-> << <<"B">> >>,
       tags |-> << <<"t">>, <<"u">> >>, link |-> "/author/B"],
      [text |-> <<>>, author |-> << <<"A">> >>, tags |-> <<>>, link |-> "/author/A"],
      [text |-> << <<"x">> >>, author |-> <<>>, tags |-> <<>>, link |-> "/author/A"],
      [text |-> << <<"x">> >>, author |-> << <<"B">> >>, tags |-> <<>>, link |-> "absent"],
      [text |-> << <<"x">> >>, author |-> << <<"B">> >>, tags |-> <<>>, link |-> "nohref"] }

\* The responses an author detail page may give in a run
BioResponses ==
    { [status |-> st, bio |-> b] :
        st \in {200, 404}, b \in { <<>>, << << <<" ", "b", " ">> >> >> } }
    \ { [status |-> 404, bio |-> <<>>] }

\* What one call of parse_single_quote does.  response is what
\* requests.get(author_url) gives if it is called.  The result holds the
\* exception raised ("" when none), the Quote returned, the cache afterwards
\* and whether the author detail page was requested.
Outcome(err, quote, bios, requested) ==
    [error |-> err, quote |-> quote, author_bios |-> bios, requested |-> requested]

\* parse_single_quote returning nothing for a block that breaks the markup
\* contract, instead of raising
parse_single_quote_skip(quote_soup, bios, response) ==
    IF quote_soup.text = <<>> \/ quote_soup.author = <<>>
       \/ quote_soup.link \in {"absent", "nohref"}
    THEN Outcome("", NoQuote, bios, FALSE)
    ELSE LET author == quote_soup.author[1]
             quote == Quote(quote_soup.text[1], author, quote_soup.tags)
         IN  IF not_in(author, bios)
             THEN IF response = ConnectionError
                  THEN Outcome("ConnectionError", NoQuote, bios, TRUE)
                  ELSE Outcome("", quote,
                               dict_set(bios, author, get_author_bio(response)), TRUE)
             ELSE Outcome("", quote, bios, FALSE)

parse_single_quote(quote_soup, bios, response) ==
    IF quote_soup.text = <<>> THEN Outcome("AttributeError", NoQuote, bios, FALSE)
    ELSE IF quote_soup.author = <<>> THEN Outcome("AttributeError", NoQuote, bios, FALSE)
    ELSE IF quote_soup.link = "absent" THEN Outcome("TypeError", NoQuote, bios, FALSE)
    ELSE IF quote_soup.link = "nohref" THEN Outcome("KeyError", NoQuote, bios, FALSE)
    ELSE LET author == quote_soup.author[1]
             quote == Quote(quote_soup.text[1], author, quote_soup.tags)
         IN  IF not_in(author, bios)
             THEN IF response = ConnectionError
                  THEN Outcome("ConnectionError", NoQuote, bios, TRUE)
                  ELSE Outcome("", quote,
                               dict_set(bios, author, get_author_bio(response)), TRUE)
             ELSE Outcome("", quote, bios, FALSE)

-----------------------------------------------------------------------------
(* The CSV writers *)

\* csv.writer, excel dialect, QUOTE_MINIMAL: a field is quoted when it holds
\* the delimiter, the quote character or a line terminator character
NeedsQuote(f) == \E i \in 1..Len(f) : f[i] \in {",", "\"", "\r", "\n"}

RECURSIVE DoubleQuotes(_)
DoubleQuotes(f) ==
    IF f = <<>> THEN <<>>
    ELSE (IF Head(f) = "\"" THEN <<"\"", "\"">> ELSE <<Head(f)>>) \o DoubleQuotes(Tail(f))

\* a writer that never quotes
FormatFieldRaw(f) == f

FormatField(f) ==
    IF NeedsQuote(f) THEN <<"\"">> \o DoubleQuotes(f) \o <<"\"">> ELSE f

\* writer.writerow(fields)
writerow(fields) ==
    (IF Len(fields) = 1 /\ fields[1] = <<>>
     THEN <<"\"", "\"">>
     ELSE join(<<",">>, [i \in 1..Len(fields) |-> FormatField(fields[i])]))
    \o <<"\r", "\n">>

RECURSIVE writerows(_)
writerows(rows) ==
    IF rows = <<>> THEN <<>> ELSE writerow(Head(rows)) \o writerows(Tail(rows))

\* the content write_quotes_to_csv leaves in the file
write_quotes_to_csv(quotes) ==
    writerow(<< <<"T","e","x","t">>, <<"A","u","t","h","o","r">>, <<"T","a","g","s">> >>)
    \o writerows([i \in 1..Len(quotes) |->
                    <<quotes[i].text, quotes[i].author,
                      join(<<",", " ">>, quotes[i].tags)>>])

\* the content write_authors_to_csv leaves in the file
write_authors_to_csv(bios) ==
    writerow(<< <<"A","u","t","h","o","r">>,
                <<"B","i","o","g","r","a","p","h","y">> >>)
    \o writerows([i \in 1..Len(bios) |-> <<bios[i].author, bios[i].bio>>])

NewFile == [opens |-> 0, content |-> <<>>]

Written(file, content) == [opens |-> file.opens + 1, content |-> content]

-----------------------------------------------------------------------------
(* The run: main, get_quotes, get_single_page_quotes *)

\* statuses a listing page may answer with
ListingStatuses == {200, 404, 500}

Last(s) == s[Len(s)]

\* no request made yet
NoResponse == [status |-> 0, bio |-> <<>>]

\* how a listing request ended: requests.get raised, the status was 404, or the
\* body was parsed
Outcome_of(status) ==
    IF status = ConnectionError.status THEN "error"
    ELSE IF status = 404 THEN "notfound" ELSE "page"

\* the blocks of the current page that parse_single_quote has been called on
BlocksRead == Len(Last(served).blocks)

\* the quote blocks a next listing page may hold: what the pages so far left
PageSizes == 0..(MaxBlocks - SumLen([i \in 1..Len(served) |-> served[i].blocks]))

InitRun ==
    /\ pc = "get"
    /\ page_number = 1
    /\ page = [status |-> 0, n |-> 0]
    /\ quotes_on_page = <<>>
    /\ all_quotes = <<>>
    /\ author_bios = <<>>
    /\ error = ""
    /\ quotes_csv = NewFile
    /\ authors_csv = NewFile
    /\ served = <<>>
    /\ bio_requests = <<>>
    /\ bio_response = NoResponse

Raise(exc) ==
    /\ pc' = "aborted"
    /\ error' = exc

\* a GetPage that catches the exception of requests.get and stops paginating
GetPageCatch ==
    /\ pc = "get"
    /\ page_number <= MaxPages
    /\ \E status \in ListingStatuses \cup {ConnectionError.status},
          n \in PageSizes :
         LET parsed == status \notin {404, ConnectionError.status}
         IN  /\ served' = Append(served, [page |-> page_number,
                                          outcome |-> Outcome_of(status),
                                          blocks |-> <<>>])
             /\ page' = [status |-> status, n |-> IF parsed THEN n ELSE 0]
             /\ pc' = IF parsed THEN "parse" ELSE "returned"
             /\ quotes_on_page' = IF parsed THEN <<>> ELSE quotes_on_page
             /\ UNCHANGED error
    /\ UNCHANGED <<page_number, all_quotes, author_bios, quotes_csv, authors_csv,
                   bio_requests, bio_response>>
    /\ UNCHANGED <<bioVars, csvVars>>

\* lines 87-92 and 64: request the listing page, test for 404, select the
\* quote blocks.  n is the number of elements page.select(".quote") finds.
GetPage ==
    /\ pc = "get"
    /\ page_number <= MaxPages
    /\ \E status \in ListingStatuses \cup {ConnectionError.status},
          n \in PageSizes :
         LET parsed == status \notin {404, ConnectionError.status}
         IN  /\ served' = Append(served, [page |-> page_number,
                                          outcome |-> Outcome_of(status),
                                          blocks |-> <<>>])
             /\ page' = [status |-> status, n |-> IF parsed THEN n ELSE 0]
             /\ IF status = ConnectionError.status
                THEN /\ Raise("ConnectionError")
                     /\ UNCHANGED quotes_on_page
                ELSE IF status = 404
                THEN /\ pc' = "returned"
                     /\ UNCHANGED <<quotes_on_page, error>>
                ELSE /\ pc' = "parse"
                     /\ quotes_on_page' = <<>>
                     /\ UNCHANGED error
    /\ UNCHANGED <<page_number, all_quotes, author_bios, quotes_csv, authors_csv,
                   bio_requests, bio_response>>
    /\ UNCHANGED <<bioVars, csvVars>>

\* lines 65-66, one turn of the comprehension: parse_single_quote on the next
\* quote block.  What the block holds is part of the page received; the model
\* learns it here, where the code first looks at it.
ParseQuote ==
    /\ pc = "parse"
    /\ BlocksRead < page.n
    /\ \E quote_soup \in BlockSet, response \in BioResponses \cup {ConnectionError} :
         LET out == parse_single_quote(quote_soup, author_bios, response)
         IN  /\ served' = [served EXCEPT ![Len(served)].blocks = Append(@, quote_soup)]
             /\ bio_requests' =
                  IF out.requested
                  THEN Append(bio_requests,
                              [author |-> quote_soup.author[1], url |-> quote_soup.link])
                  ELSE bio_requests
             /\ bio_response' = IF out.requested THEN response ELSE bio_response
             /\ author_bios' = out.author_bios
             /\ IF out.error # ""
                THEN /\ Raise(out.error)
                     /\ UNCHANGED quotes_on_page
                ELSE /\ quotes_on_page' =
                          IF out.quote = NoQuote THEN quotes_on_page
                          ELSE Append(quotes_on_page, out.quote)
                     /\ UNCHANGED <<pc, error>>
    /\ UNCHANGED <<page_number, page, all_quotes, quotes_csv, authors_csv>>
    /\ UNCHANGED <<bioVars, csvVars>>

\* list.extend putting the new quotes first
extend_front(list, more) == more \o list

\* an assignment where the list should grow
extend_replace(list, more) == more

\* all_quotes.extend(quotes_on_page), line 98
extend(list, more) == list \o more

\* an EndPage that skips a page index
EndPageSkip ==
    /\ pc = "parse"
    /\ BlocksRead = page.n
    /\ IF quotes_on_page = <<>>
       THEN /\ pc' = "returned"
            /\ UNCHANGED <<all_quotes, page_number>>
       ELSE /\ all_quotes' = extend(all_quotes, quotes_on_page)
            /\ page_number' = page_number + 2
            /\ pc' = "get"
    /\ UNCHANGED <<page, quotes_on_page, author_bios, error, quotes_csv, authors_csv,
                   served, bio_requests, bio_response>>
    /\ UNCHANGED <<bioVars, csvVars>>

\* an EndPage that rewrites the quotes file after every page
EndPageWrite ==
    /\ pc = "parse"
    /\ BlocksRead = page.n
    /\ IF quotes_on_page = <<>>
       THEN /\ pc' = "returned"
            /\ UNCHANGED <<all_quotes, page_number, quotes_csv>>
       ELSE /\ all_quotes' = extend(all_quotes, quotes_on_page)
            /\ page_number' = page_number + 1
            /\ quotes_csv' = Written(quotes_csv, write_quotes_to_csv(all_quotes'))
            /\ pc' = "get"
    /\ UNCHANGED <<page, quotes_on_page, author_bios, error, authors_csv,
                   served, bio_requests, bio_response>>
    /\ UNCHANGED <<bioVars, csvVars>>

\* lines 95-99: the comprehension is done; stop on an empty page, else keep the
\* quotes and go to the next page
EndPage ==
    /\ pc = "parse"
    /\ BlocksRead = page.n
    /\ IF quotes_on_page = <<>>
       THEN /\ pc' = "returned"
            /\ UNCHANGED <<all_quotes, page_number>>
       ELSE /\ all_quotes' = extend(all_quotes, quotes_on_page)
            /\ page_number' = page_number + 1
            /\ pc' = "get"
    /\ UNCHANGED <<page, quotes_on_page, author_bios, error, quotes_csv, authors_csv,
                   served, bio_requests, bio_response>>
    /\ UNCHANGED <<bioVars, csvVars>>

\* line 165: write_quotes_to_csv(quotes, quotes_csv_path)
WriteQuotes ==
    /\ pc = "returned"
    /\ quotes_csv' = Written(quotes_csv, write_quotes_to_csv(all_quotes))
    /\ pc' = "wrote_quotes"
    /\ UNCHANGED <<page_number, page, quotes_on_page, all_quotes, author_bios, error,
                   authors_csv, served, bio_requests, bio_response>>
    /\ UNCHANGED <<bioVars, csvVars>>

\* line 166: write_authors_to_csv(author_bios, authors_csv_path)
WriteAuthors ==
    /\ pc = "wrote_quotes"
    /\ authors_csv' = Written(authors_csv, write_authors_to_csv(author_bios))
    /\ pc' = "exit"
    /\ UNCHANGED <<page_number, page, quotes_on_page, all_quotes, author_bios, error,
                   quotes_csv, served, bio_requests, bio_response>>
    /\ UNCHANGED <<bioVars, csvVars>>

-----------------------------------------------------------------------------
(* Reading a CSV file back.  The program never reads its files; the reader is
   here to state what the files hold.  It is csv.reader, excel dialect, over a
   file opened with newline="".  The reader takes the file line by line, a line ending at "\n",
   at "\r\n" or at a lone "\r", and after the characters of each line it is
   given an end-of-line mark.  A row is returned when that mark leaves it at
   the start of a record. *)

ReaderStart == [state |-> "START_RECORD", field |-> <<>>, row |-> <<>>, rows |-> <<>>]

SaveField(r, state) == [r EXCEPT !.row = Append(@, r.field), !.field = <<>>, !.state = state]

AddChar(r, c, state) == [r EXCEPT !.field = Append(@, c), !.state = state]

\* parse_process_char for a character of the line
ReadChar(r, c) ==
    LET st == IF r.state = "START_RECORD" /\ c \notin {"\n", "\r"}
              THEN "START_FIELD" ELSE r.state
    IN  CASE st = "START_RECORD" -> [r EXCEPT !.state = "EAT_CRNL"]
          [] st = "START_FIELD" ->
               IF c \in {"\n", "\r"} THEN SaveField(r, "EAT_CRNL")
               ELSE IF c = "\"" THEN [r EXCEPT !.state = "IN_QUOTED_FIELD"]
               ELSE IF c = "," THEN SaveField(r, "START_FIELD")
               ELSE AddChar(r, c, "IN_FIELD")
          [] st = "IN_FIELD" ->
               IF c \in {"\n", "\r"} THEN SaveField(r, "EAT_CRNL")
               ELSE IF c = "," THEN SaveField(r, "START_FIELD")
               ELSE AddChar(r, c, "IN_FIELD")
          [] st = "IN_QUOTED_FIELD" ->
               IF c = "\"" THEN [r EXCEPT !.state = "QUOTE_IN_QUOTED_FIELD"]
               ELSE AddChar(r, c, "IN_QUOTED_FIELD")
          [] st = "QUOTE_IN_QUOTED_FIELD" ->
               IF c = "\"" THEN AddChar(r, c, "IN_QUOTED_FIELD")
               ELSE IF c = "," THEN SaveField(r, "START_FIELD")
               ELSE IF c \in {"\n", "\r"} THEN SaveField(r, "EAT_CRNL")
               ELSE AddChar(r, c, "IN_FIELD")
          [] OTHER -> r

\* parse_process_char for the end-of-line mark, and the row returned after it
ReadEol(r) ==
    LET q == CASE r.state \in {"START_FIELD", "IN_FIELD", "QUOTE_IN_QUOTED_FIELD"} ->
                    SaveField(r, "START_RECORD")
               [] r.state = "EAT_CRNL" -> [r EXCEPT !.state = "START_RECORD"]
               [] OTHER -> r
    IN  IF q.state = "START_RECORD"
        THEN [q EXCEPT !.rows = Append(@, q.row), !.row = <<>>]
        ELSE q

\* the end of the file inside a record
ReadEof(r) ==
    IF r.state = "START_RECORD" THEN r
    ELSE LET q == SaveField(r, "START_RECORD")
         IN  [q EXCEPT !.rows = Append(@, q.row), !.row = <<>>]

\* the reader after one more character of the file, cs[n]
ReadNext(r, cs, n) ==
    LET q == ReadChar(r, cs[n])
        lineEnds == \/ cs[n] = "\n"
                    \/ cs[n] = "\r" /\ (n = Len(cs) \/ cs[n + 1] # "\n")
                    \/ n = Len(cs)
    IN  IF lineEnds THEN ReadEol(q) ELSE q

\* the reader r taken over the characters lo..hi of the file.  The range is
\* halved, and the first half is computed (the test on q) before the second
\* is entered, so that a long file does not nest the evaluation deeply.
RECURSIVE ReadRange(_, _, _, _)
ReadRange(r, cs, lo, hi) ==
    IF lo > hi THEN r
    ELSE IF lo = hi THEN ReadNext(r, cs, lo)
    ELSE LET mid == (lo + hi) \div 2
             q == ReadRange(r, cs, lo, mid)
         IN  IF q.state = "" THEN q ELSE ReadRange(q, cs, mid + 1, hi)

\* list(csv.reader(file))
csv_reader(cs) == ReadEof(ReadRange(ReaderStart, cs, 1, Len(cs))).rows

\* str.split(sep) for a separator of two characters
RECURSIVE split2(_, _, _)
split2(s, sep, cur) ==
    IF s = <<>> THEN <<cur>>
    ELSE IF Len(s) >= 2 /\ SubSeq(s, 1, 2) = sep
         THEN <<cur>> \o split2(SubSeq(s, 3, Len(s)), sep, <<>>)
         ELSE split2(Tail(s), sep, Append(cur, Head(s)))

split(s, sep) == split2(s, sep, <<>>)

-----------------------------------------------------------------------------
(* The specifications *)

IdleRun == InitRun
IdleBio == bio_in = ConnectionError /\ bio_out = <<>>
IdleCsv == csv_phase = "idle" /\ csv_quotes = <<>> /\ csv_file = <<>> /\ csv_rows = <<>>

Init == InitRun /\ IdleBio /\ IdleCsv

Next == GetPage \/ ParseQuote \/ EndPage \/ WriteQuotes \/ WriteAuthors

Spec == Init /\ [][Next]_vars

\* main is one sequential thread: whenever it has a next step, it takes it
FairSpec == Spec /\ WF_vars(Next)

(* get_author_bio on its own, over the responses of an author detail page *)

RECURSIVE SeqsUpTo(_, _)
SeqsUpTo(S, n) ==
    IF n = 0 THEN {<<>>}
    ELSE LET shorter == SeqsUpTo(S, n - 1)
         IN  shorter \cup {Append(q, x) : q \in shorter, x \in S}

\* text nodes: short strings with and without white space
BioNodes == SeqsUpTo({"a", " "}, MaxNodeLen)

BioInputs ==
    { [status |-> st, bio |-> b] :
        st \in {200, 201, 404, 500},
        b \in {<<>>} \cup { <<nodes>> : nodes \in SeqsUpTo(BioNodes, MaxNodes) } }

InitBio ==
    /\ IdleRun /\ IdleCsv
    /\ bio_in \in BioInputs
    /\ bio_out = <<>>

\* the call get_author_bio(author_url), the request answered with bio_in
CallBio ==
    /\ bio_out = <<>>
    /\ bio_out' = <<get_author_bio(bio_in)>>
    /\ UNCHANGED <<bio_in, runVars, csvVars>>

SpecBio == InitBio /\ [][CallBio]_vars

(* write_quotes_to_csv on its own, over short lists of quotes, read back *)

CsvChars == {"a", ",", " ", "\"", "\n"}

RECURSIVE Size(_)
Size(quotes) ==
    IF quotes = <<>> THEN 0
    ELSE LET q == Head(quotes)
         IN  1 + Len(q.text) + Len(q.author) + Len(q.tags) + SumLen(q.tags)
             + Size(Tail(quotes))

InitCsv ==
    /\ IdleRun /\ IdleBio
    /\ csv_phase = "build"
    /\ csv_quotes = <<>>
    /\ csv_file = <<>>
    /\ csv_rows = <<>>

\* the caller's list grows by one quote
AddQuote ==
    /\ csv_phase = "build" /\ Size(csv_quotes) < MaxSize
    /\ csv_quotes' = Append(csv_quotes, NoQuote)
    /\ UNCHANGED <<csv_phase, csv_file, csv_rows, runVars, bioVars>>

\* the last quote gets one more tag
AddTag ==
    /\ csv_phase = "build" /\ Size(csv_quotes) < MaxSize /\ csv_quotes # <<>>
    /\ csv_quotes' = [csv_quotes EXCEPT ![Len(csv_quotes)].tags = Append(@, <<>>)]
    /\ UNCHANGED <<csv_phase, csv_file, csv_rows, runVars, bioVars>>

\* the text, the author or the last tag of the last quote gets one more character
AddText ==
    /\ csv_phase = "build" /\ Size(csv_quotes) < MaxSize /\ csv_quotes # <<>>
    /\ \E c \in CsvChars :
         LET n == Len(csv_quotes)
             q == csv_quotes[n]
         IN  \/ csv_quotes' = [csv_quotes EXCEPT ![n].text = Append(@, c)]
             \/ csv_quotes' = [csv_quotes EXCEPT ![n].author = Append(@, c)]
             \/ /\ q.tags # <<>>
                /\ csv_quotes' = [csv_quotes EXCEPT ![n].tags[Len(q.tags)] = Append(@, c)]
    /\ UNCHANGED <<csv_phase, csv_file, csv_rows, runVars, bioVars>>

\* write_quotes_to_csv(quotes, filename)
CsvWrite ==
    /\ csv_phase = "build"
    /\ csv_file' = write_quotes_to_csv(csv_quotes)
    /\ csv_phase' = "written"
    /\ UNCHANGED <<csv_quotes, csv_rows, runVars, bioVars>>

\* the file is read back with csv.reader
CsvRead ==
    /\ csv_phase = "written"
    /\ csv_rows' = csv_reader(csv_file)
    /\ csv_phase' = "read"
    /\ UNCHANGED <<csv_quotes, csv_file, runVars, bioVars>>

NextCsv == AddQuote \/ AddTag \/ AddText \/ CsvWrite \/ CsvRead

SpecCsv == InitCsv /\ [][NextCsv]_vars

-----------------------------------------------------------------------------
(* Properties of the run *)

\* get_quotes has returned: the driver is DONE
Done == pc \in {"returned", "wrote_quotes", "exit"}

Running == pc \in {"get", "parse"}

Malformed(b) == b.text = <<>> \/ b.author = <<>> \/ b.link \in {"absent", "nohref"}

\* the quotes of a page, in document order
RECURSIVE QuotesOf(_)
QuotesOf(blocks) ==
    IF blocks = <<>> THEN <<>>
    ELSE <<Quote(Head(blocks).text[1], Head(blocks).author[1], Head(blocks).tags)>>
         \o QuotesOf(Tail(blocks))

\* the quotes of the first k listing pages, in page order
RECURSIVE QuotesOfPages(_)
QuotesOfPages(k) ==
    IF k = 0 THEN <<>> ELSE QuotesOfPages(k - 1) \o QuotesOf(served[k].blocks)

EndOfData(s) == s.outcome = "notfound" \/ (s.outcome = "page" /\ s.blocks = <<>>)

HasQuotes(s) == s.outcome = "page" /\ s.blocks # <<>>

AuthorsOf(quotes) == {quotes[i].author : i \in 1..Len(quotes)}

\* C1: when pages 1..k each answer with a status other than 404 and hold at
\* least one quote block, and page k+1 answers 404 or holds no quote block,
\* the sequence get_quotes returns is the quotes of pages 1..k, page after page
\* and in document order within a page.
C1_Concatenation ==
    Done =>
      LET k == Len(served) - 1
      IN  (/\ \A i \in 1..k : HasQuotes(served[i])
           /\ EndOfData(served[k + 1]))
          => all_quotes = QuotesOfPages(k)

C1_Witness ==
    /\ Done
    /\ Len(served) = 3
    /\ HasQuotes(served[1]) /\ HasQuotes(served[2]) /\ EndOfData(served[3])
    /\ Len(all_quotes) = 3
    /\ all_quotes[1] # all_quotes[2]

\* the blocks parse_single_quote found complete, over all pages
CompleteBlocks ==
    UNION { {served[i].blocks[j] : j \in 1..Len(served[i].blocks)} : i \in 1..Len(served) }
    \ {b \in BlockSet : Malformed(b)}

RequestsFor(a) == Cardinality({i \in 1..Len(bio_requests) : bio_requests[i].author = a})

\* C2: no author name is requested twice; a quote block whose author is in the
\* cache makes no request and no cached value ever changes; the number of
\* author detail requests is the number of distinct author names among the
\* quote blocks processed, so also among the quotes get_quotes returns.
C2_OnceInv ==
    /\ \A i \in 1..Len(bio_requests) : RequestsFor(bio_requests[i].author) = 1
    /\ Len(bio_requests) = Cardinality({b.author[1] : b \in CompleteBlocks})
    /\ Done => Len(bio_requests) = Cardinality(AuthorsOf(all_quotes))

C2_CacheStable ==
    \A a \in Keys(author_bios) :
        /\ a \in Keys(author_bios')
        /\ dict_get(author_bios', a) = dict_get(author_bios, a)

C2_OncePerAuthor == []C2_OnceInv /\ [][C2_CacheStable]_vars

C2_Witness ==
    /\ Done
    /\ Len(served) = 3
    /\ Len(served[1].blocks) = 2 /\ Len(served[2].blocks) = 1
    /\ Len(all_quotes) = 3
    /\ all_quotes[3].author = all_quotes[1].author
    /\ all_quotes[2].author # all_quotes[1].author
    /\ Len(bio_requests) = 2

\* the author detail page answered, but with a status outside 2xx or without the
\* biography element
Unavailable(r) ==
    /\ r # ConnectionError
    /\ r.status \notin 200..299 \/ r.bio = <<>>

\* C3: when the author detail page answers with a non-2xx status or without
\* the biography element, the cache gets "Biography not available." for that
\* author, nothing is raised and the quote block is parsed to its end.
C3_SentinelStored ==
    [][ (bio_requests' # bio_requests /\ Unavailable(bio_response'))
        => /\ dict_get(author_bios', Last(bio_requests').author) = Sentinel
           /\ error' = "" /\ pc' = "parse"
           /\ Len(quotes_on_page') = Len(quotes_on_page) + 1 ]_vars

C3_Witness ==
    /\ bio_requests # <<>>
    /\ bio_response.status = 404
    /\ Last(bio_requests).author \in Keys(author_bios)
    /\ dict_get(author_bios, Last(bio_requests).author) = Sentinel
    /\ pc = "get" /\ page_number = 2

\* C4 as stated: a listing response with an error status other than 404 never
\* lets the driver reach DONE.
C4_ErrorStatusFatal == page.status = 500 => ~Done

\* C4 amended: a transport failure of a listing request aborts the run, with
\* no result and no file; a response with any status other than 404 is parsed,
\* so the run then aborts only inside a quote block, and it is DONE after such
\* a response exactly when the page held no quote block.
C4_TransportFatal ==
    /\ page.status = ConnectionError.status
         => /\ pc = "aborted" /\ error = "ConnectionError"
            /\ quotes_csv = NewFile /\ authors_csv = NewFile
    /\ (page.status \in {200, 500} /\ pc = "aborted") => BlocksRead >= 1
    /\ (page.status \in {200, 500} /\ Done) => page.n = 0

C4_Witness ==
    /\ page.status = ConnectionError.status
    /\ pc = "aborted"
    /\ Len(served) = 2
    /\ all_quotes # <<>>

\* C5: a quote block without its text, its author name or its author link
\* aborts the run: it is the last block read, no quote of its page reaches
\* all_quotes, and the driver is never DONE.
C5_MarkupFatal ==
    \A i \in 1..Len(served) : \A j \in 1..Len(served[i].blocks) :
        Malformed(served[i].blocks[j])
        => /\ pc = "aborted"
           /\ error \in {"AttributeError", "TypeError", "KeyError"}
           /\ i = Len(served) /\ j = Len(served[i].blocks)
           /\ all_quotes = QuotesOfPages(i - 1)

C5_Witness ==
    /\ pc = "aborted" /\ error = "KeyError"
    /\ Len(served) = 2
    /\ Len(Last(served).blocks) = 2
    /\ Len(all_quotes) = 1

\* C6: the driver starts at page 1 and is at page k+1 after k pages with
\* quotes; the pages requested are 1, 2, ... each once and in order; it is DONE
\* only after a 404 or an empty page, which is the last page requested, and
\* requests nothing afterwards; an empty page always leads to DONE.
C6_DriverInv ==
    /\ \A i \in 1..Len(served) : served[i].page = i
    /\ \A i \in 1..(Len(served) - 1) : HasQuotes(served[i])
    /\ pc = "get" => page_number = Len(served) + 1
    /\ pc = "parse" => page_number = Len(served)
    /\ Done => (page_number = Len(served) /\ EndOfData(Last(served)))
    /\ (served # <<>> /\ Last(served).outcome = "notfound") => Done

C6_DoneIsFinal == Done => (Done' /\ served' = served /\ page_number' = page_number)

C6_EmptyPage == pc = "parse" /\ page.n = 0

C6_Pagination ==
    /\ []C6_DriverInv
    /\ [][C6_DoneIsFinal]_vars
    /\ (C6_EmptyPage ~> Done)

C6_Witness ==
    /\ Done
    /\ Len(served) = 3
    /\ served[3].outcome = "page" /\ served[3].blocks = <<>>
    /\ Len(all_quotes) >= 2

AuthorRows == Tail(csv_reader(authors_csv.content))

AuthorsHeader == << <<"A","u","t","h","o","r">>, <<"B","i","o","g","r","a","p","h","y">> >>

\* C7: at DONE the keys of author_bios are the author names of the quotes
\* returned, and the authors CSV holds, after its header, one row for each of
\* them and no other row.
C7_AuthorsRows ==
    /\ Done => Keys(author_bios) = AuthorsOf(all_quotes)
    /\ pc = "exit" =>
         /\ Head(csv_reader(authors_csv.content)) = AuthorsHeader
         /\ Len(AuthorRows) = Cardinality(AuthorsOf(all_quotes))
         /\ \A a \in AuthorsOf(all_quotes) :
              Cardinality({i \in 1..Len(AuthorRows) : AuthorRows[i][1] = a}) = 1

C7_Witness ==
    /\ pc = "exit"
    /\ Len(all_quotes) = 3
    /\ Cardinality(AuthorsOf(all_quotes)) = 2
    /\ Len(AuthorRows) = 2

\* C10: no file is touched while the driver is running or after an abort; the
\* quotes CSV is complete before the authors CSV is opened; each file is opened
\* once at most, and once when main ends.
C10_OutputAfterDone ==
    /\ (Running \/ pc = "aborted") => (quotes_csv = NewFile /\ authors_csv = NewFile)
    /\ quotes_csv.opens <= 1 /\ authors_csv.opens <= 1
    /\ authors_csv.opens = 1 =>
         /\ quotes_csv.opens = 1
         /\ Len(csv_reader(quotes_csv.content)) = Len(all_quotes) + 1
    /\ pc = "exit" => authors_csv.opens = 1

C10_Witness ==
    /\ pc = "wrote_quotes"
    /\ Len(all_quotes) = 2
    /\ quotes_csv.opens = 1
    /\ authors_csv = NewFile

-----------------------------------------------------------------------------
(* Properties of get_author_bio *)

\* t is s without its leading and trailing white space
IsTrimOf(t, s) ==
    \E i \in 0..Len(s), j \in 0..Len(s) :
        /\ i + j <= Len(s)
        /\ t = SubSeq(s, i + 1, Len(s) - j)
        /\ \A k \in 1..i : IsSpace(s[k])
        /\ \A k \in (Len(s) - j + 1)..Len(s) : IsSpace(s[k])
        /\ t # <<>> => (~IsSpace(t[1]) /\ ~IsSpace(t[Len(t)]))

Trimmed(s) ==
    CHOOSE t \in {SubSeq(s, a, b) : a \in 1..(Len(s) + 1), b \in 0..Len(s)} : IsTrimOf(t, s)

RECURSIVE TrimmedNodes(_)
TrimmedNodes(nodes) ==
    IF nodes = <<>> THEN <<>> ELSE Trimmed(Head(nodes)) \o TrimmedNodes(Tail(nodes))

\* the text of an element: its text nodes one after the other
RECURSIVE TextOf(_)
TextOf(nodes) == IF nodes = <<>> THEN <<>> ELSE Head(nodes) \o TextOf(Tail(nodes))

\* C8 as stated: for a 2xx response holding the biography element the result
\* is the trimmed text of the element (each of its text nodes trimmed) and not
\* the sentinel; so the sentinel is returned only for a non-2xx status or a
\* missing element.
C8_TrimmedFor2xx ==
    bio_out # <<>> =>
      /\ (bio_in.status \in 200..299 /\ bio_in.bio # <<>>)
           => (bio_out[1] = TrimmedNodes(bio_in.bio[1]) /\ bio_out[1] # Sentinel)
      /\ bio_out[1] = Sentinel => (bio_in.status \notin 200..299 \/ bio_in.bio = <<>>)

\* C8 amended: for a response with status 200 holding the biography element
\* the result is the element's text nodes, each trimmed, one after the other,
\* which is the trimmed text of the element when it has one text node; every
\* other response, a 2xx status other than 200 included, gives the sentinel.
C8_TrimmedFor200 ==
    bio_out # <<>> =>
      LET found == bio_in.status = 200 /\ bio_in.bio # <<>>
      IN  /\ found => bio_out[1] = TrimmedNodes(bio_in.bio[1])
          /\ (found /\ Len(bio_in.bio[1]) = 1)
               => bio_out[1] = Trimmed(TextOf(bio_in.bio[1]))
          /\ ~found => bio_out[1] = Sentinel

C8_Witness ==
    /\ bio_out # <<>>
    /\ bio_in.status = 200 /\ bio_in.bio # <<>>
    /\ Len(bio_in.bio[1]) = 1
    /\ bio_out[1] # <<>>
    /\ bio_out[1] # bio_in.bio[1][1]

-----------------------------------------------------------------------------
(* Properties of write_quotes_to_csv *)

Separator == <<",", " ">>

Contains(s, sep) == \E i \in 1..(Len(s) - 1) : SubSeq(s, i, i + 1) = sep

\* the rows read back number the quotes plus the header, and row i + 1 has the
\* text and the author of quote i
TextAndAuthorBack ==
    /\ Len(csv_rows) = Len(csv_quotes) + 1
    /\ csv_rows[1] = << <<"T","e","x","t">>, <<"A","u","t","h","o","r">>, <<"T","a","g","s">> >>
    /\ \A i \in 1..Len(csv_quotes) :
         /\ Len(csv_rows[i + 1]) = 3
         /\ csv_rows[i + 1][1] = csv_quotes[i].text
         /\ csv_rows[i + 1][2] = csv_quotes[i].author

\* C9 as stated: the rows read back give the text and author of every quote,
\* in order, and the tags field split on ", " is the tag list of the quote,
\* whatever the tag list.
C9_RoundTripAll ==
    csv_phase = "read" =>
      /\ TextAndAuthorBack
      /\ \A i \in 1..Len(csv_quotes) :
           split(csv_rows[i + 1][3], Separator) = csv_quotes[i].tags

\* C9 amended: the rows read back give the text and author of every quote, in
\* order; the tags field split on ", " is the tag list of the quote when that
\* list is not empty and none of its tags contains ", "; for an empty tag list
\* the field is empty and splits into one empty tag.
C9_RoundTrip ==
    csv_phase = "read" =>
      /\ TextAndAuthorBack
      /\ \A i \in 1..Len(csv_quotes) :
           LET tags == csv_quotes[i].tags
               back == split(csv_rows[i + 1][3], Separator)
           IN  /\ (tags # <<>> /\ \A k \in 1..Len(tags) : ~Contains(tags[k], Separator))
                    => back = tags
               /\ tags = <<>> => (csv_rows[i + 1][3] = <<>> /\ back = << <<>> >>)

C9_Witness ==
    /\ csv_phase = "read"
    /\ Len(csv_quotes) = 2
    /\ NeedsQuote(csv_quotes[1].text)
    /\ Len(csv_quotes[2].tags) = 2
    /\ Len(csv_rows) = 3

====
